---- MODULE Spec2Model ----
(***************************************************************************)
(* The command line of the qutebrowser status bar                          *)
(* (qutebrowser/widgets/statusbar.py, class Command): the class-level      *)
(* command history and the per-widget history browsing cursor.             *)
(*                                                                         *)
(* A text is a sequence of one-character strings, so that strip(),         *)
(* startswith() and lstrip() are computed character by character.          *)
(* The history list is a class attribute: every Command widget appends to  *)
(* and reads the same list object.  The model follows one widget in full   *)
(* (text, _tmphist, _histpos) and, of any other widget, the one thing it   *)
(* does to the shared state: its process_cmdline appending to history.     *)
(* _tmphist is either the history object itself                            *)
(* (self._tmphist = self.history) or a list of the widget's own (the list  *)
(* comprehension), which the field alias tells apart.                      *)
(*                                                                         *)
(* The other widgets of the status bar follow: the StatusBar colours and   *)
(* its Text (disp_error, clear_error), Url, Progress and CommandValidator. *)
(* Their texts and colours are plain strings.                              *)
(***************************************************************************)
EXTENDS Integers, Sequences, FiniteSets, TLC

\* Longest history the model lets process_cmdline build.
MaxHist == 3

\* Characters str.strip() removes.
Whitespace == {" "}

\* The texts the input line is given by the user or by set_cmd.
TextPool ==
    { <<>>, <<" ">>, <<":", "a">>, <<":", "a", "b">>, <<":", "a", " ">>,
      <<"/", "b">> }

\* The arguments append_cmd is given.
AppendPool == { <<"a", "b">> }

\* Qt::FocusReason: the four reasons focusOutEvent names and two of the
\* others, which it treats alike.
FocusReasons ==
    { "MouseFocusReason", "TabFocusReason", "BacktabFocusReason",
      "OtherFocusReason", "ActiveWindowFocusReason", "PopupFocusReason" }

\* _histpos = None is the empty tuple, _histpos = p is <<p>>.
None == <<>>

Some(p) == <<p>>

VARIABLES
    history,   \* Command.history, the list object shared by all widgets
    text,      \* QLineEdit.text() of the widget
    tmphist,   \* self._tmphist, [alias, own]
    histpos,   \* self._histpos
    emitted,   \* what the last handler emitted or raised
    last,      \* the last handler run and what it found on entry:
               \* [op, arg, waspos, washlen, wastmp, ups, fwd]
    fgcolor,   \* StatusBar.fgcolor
    bgcolor,   \* StatusBar.bgcolor
    txt_text,  \* StatusBar.txt.text()
    old_text,  \* Text.old_text
    errlog,    \* whether errors are on display, and the text shown before
               \* the first of them: [inerr, before]
    url,       \* Url.text()
    old_url,   \* Url.old_url
    urllog,    \* the last Url slot called and the page URL last set:
               \* [op, page]
    status_progress_bg,  \* what colordict holds under 'status.progress.bg'
    value,     \* QProgressBar.value()
    visible,   \* whether the Progress widget is shown
    color,     \* Progress.color
    chunk,     \* colordict['statusbar.progress.bg.__cur__'], the colour of
               \* the stylesheet in force
    proglog,   \* the last Progress slot called and what it found:
               \* [op, arg, wasvisible, waschunk]
    startchars,  \* keys.startchars
    vstring,   \* the string given to CommandValidator.validate
    vpos,      \* the cursor position given to it
    vresult    \* the tuple it returned, or <<>> before the call

cmdvars == <<history, text, tmphist, histpos, emitted, last>>

barvars == <<fgcolor, bgcolor, txt_text, old_text, errlog>>

urlvars == <<url, old_url, urllog>>

progvars == <<status_progress_bg, value, visible, color, chunk, proglog>>

valvars == <<startchars, vstring, vpos, vresult>>

vars == <<cmdvars, barvars, urlvars, progvars, valvars>>

----------------------------------------------------------------------------
(* Pure helpers: Python's str and list operations.                         *)

RECURSIVE strip(_)
strip(s) ==
    IF s = <<>> THEN s
    ELSE IF Head(s) \in Whitespace THEN strip(Tail(s))
    ELSE IF s[Len(s)] \in Whitespace THEN strip(SubSeq(s, 1, Len(s) - 1))
    ELSE s

startswith(e, pre) ==
    /\ Len(pre) <= Len(e)
    /\ SubSeq(e, 1, Len(pre)) = pre

RECURSIVE lstrip(_, _)
lstrip(s, c) ==
    IF s # <<>> /\ Head(s) = c THEN lstrip(Tail(s), c) ELSE s

\* [e for e in hist if e.startswith(pre)]
RECURSIVE comprehension(_, _)
comprehension(hist, pre) ==
    IF hist = <<>> THEN <<>>
    ELSE IF startswith(Head(hist), pre)
         THEN <<Head(hist)>> \o comprehension(Tail(hist), pre)
         ELSE comprehension(Tail(hist), pre)

\* The list a _tmphist value denotes, given the shared history list.
deref(tmp, hist) == IF tmp.alias THEN hist ELSE tmp.own

\* self._tmphist as the code reads it now.
TmpList == deref(tmphist, history)

Signal(name, arg) == <<[sig |-> name, arg |-> arg]>>

----------------------------------------------------------------------------
(* StatusBar and its Text                                                  *)

\* What colordict holds under 'status.progress.bg' when the key is absent.
NoColor == "None"

\* config.colordict.getraw: the raw value stored under key, here the name
\* of the key itself, so that two keys hold the same value only when they
\* are the same key; 'status.progress.bg' holds what the configuration
\* in force gives it.
getraw(key) ==
    IF key = "status.progress.bg" THEN status_progress_bg ELSE key

InitBar ==
    /\ fgcolor = getraw("statusbar.fg")
    /\ bgcolor = getraw("statusbar.bg")
    /\ txt_text = ""
    /\ old_text = ""
    /\ errlog = [inerr |-> FALSE, before |-> ""]

\* The error texts disp_error is given.
ErrorTexts == { "e1", "e2" }

\* StatusBar.disp_error, with Text.set_error
disp_error(t) ==
    /\ UNCHANGED <<cmdvars, urlvars, progvars, valvars>>
    /\ bgcolor' = getraw("statusbar.bg.error")
    /\ fgcolor' = getraw("statusbar.fg.error")
    /\ old_text' = txt_text
    /\ txt_text' = t
    /\ errlog' = IF errlog.inerr THEN errlog
                 ELSE [inerr |-> TRUE, before |-> txt_text]

\* StatusBar.clear_error, with Text.clear_error
clear_error ==
    /\ bgcolor' = getraw("statusbar.bg")
    /\ fgcolor' = getraw("statusbar.fg")
    /\ txt_text' = old_text
    /\ errlog' = [errlog EXCEPT !.inerr = FALSE]
    /\ UNCHANGED old_text

\* QWidget.setFocus: focusInEvent runs when the line did not have the focus
\* already, and then clears the error.
setFocus ==
    \E gains \in BOOLEAN :
        IF gains THEN clear_error ELSE UNCHANGED barvars

----------------------------------------------------------------------------
(* Command                                                                 *)

InitCommand ==
    /\ history = <<>>
    /\ text = <<>>
    /\ tmphist = [alias |-> FALSE, own |-> <<>>]
    /\ histpos = None
    /\ emitted = <<>>
    /\ last = [op |-> "init", arg |-> "", waspos |-> None, washlen |-> 0,
               wastmp |-> <<>>, ups |-> 0, fwd |-> 0]

\* The record of a handler run: its name, its focus reason if it has one,
\* and _histpos, len(history) and _tmphist as they were on entry; ups is
\* the number of key_up_handler calls in a row that began on an inactive
\* cursor and each moved it, fwd the ups a key_down_handler call followed.
\* A handler of Command touches no other widget but through setFocus.
RanWith(op, arg) ==
    /\ last' = [op |-> op, arg |-> arg, waspos |-> histpos,
                washlen |-> Len(history), wastmp |-> TmpList,
                ups |-> IF op # "key_up_handler" THEN 0
                        ELSE IF histpos = None THEN 1
                        ELSE IF last.ups >= 1 /\ histpos[1] >= 1
                             THEN last.ups + 1
                             ELSE 0,
                fwd |-> IF op = "key_down_handler" THEN last.ups ELSE 0]
    /\ UNCHANGED <<urlvars, progvars, valvars>>

Ran(op) == RanWith(op, "")

\* _histbrowse_stop with its assignment lost.
histbrowse_stop_keep == histpos

\* _histbrowse_stop
histbrowse_stop == None

\* The append without the test for a repeat of the last entry.
record_always(hist, t) == Append(hist, t)

\* The append putting the newest entry at the head.
record_prepend(hist, t) ==
    IF hist = <<>> \/ t # hist[Len(hist)] THEN <<t>> \o hist ELSE hist

\* if not self.history or text != self.history[-1]: self.history.append(text)
record(hist, t) ==
    IF hist = <<>> \/ t # hist[Len(hist)] THEN Append(hist, t) ELSE hist

\* The signals dictionary of process_cmdline and the emit it selects.
emit_for(t) ==
    IF t[1] = ":" THEN Signal("got_cmd", lstrip(t, t[1]))
    ELSE IF t[1] = "/" THEN Signal("got_search", lstrip(t, t[1]))
    ELSE IF t[1] = "?" THEN Signal("got_search_rev", lstrip(t, t[1]))
    ELSE <<>>

\* The slot of returnPressed, which QLineEdit emits only for a line its
\* validator accepts: never for the empty line, which starts with nothing.
process_cmdline ==
    /\ text # <<>>
    /\ Len(record(history, text)) <= MaxHist
    /\ histpos' = histbrowse_stop
    /\ history' = record(history, text)
    /\ text' = <<>>
    /\ emitted' = emit_for(text)
    /\ Ran("process_cmdline")
    /\ UNCHANGED <<tmphist, barvars>>

\* process_cmdline of another Command widget whose text is t: of the state
\* followed here it changes the shared history list alone.
other_process_cmdline(t) ==
    /\ t # <<>>
    /\ Len(record(history, t)) <= MaxHist
    /\ history' = record(history, t)
    /\ emitted' = <<>>
    /\ Ran("other_process_cmdline")
    /\ UNCHANGED <<text, tmphist, histpos, barvars>>

\* The textEdited signal of QLineEdit, connected to _histbrowse_stop.
textEdited(t) ==
    /\ t # text
    /\ text' = t
    /\ histpos' = histbrowse_stop
    /\ emitted' = <<>>
    /\ Ran("textEdited")
    /\ UNCHANGED <<history, tmphist, barvars>>

set_cmd(t) ==
    /\ text' = t
    /\ emitted' = <<>>
    /\ setFocus
    /\ Ran("set_cmd")
    /\ UNCHANGED <<history, tmphist, histpos>>

append_cmd(t) ==
    /\ text' = <<":">> \o t
    /\ emitted' = <<>>
    /\ setFocus
    /\ Ran("append_cmd")
    /\ UNCHANGED <<history, tmphist, histpos>>

\* The reasons for which focusOutEvent clears the line.
explicit_reasons ==
    { "MouseFocusReason", "TabFocusReason", "BacktabFocusReason",
      "OtherFocusReason" }

focusOutEvent(reason) ==
    /\ IF reason \in explicit_reasons
       THEN /\ text' = <<>>
            /\ histpos' = histbrowse_stop
       ELSE UNCHANGED <<text, histpos>>
    /\ emitted' = Signal("hide_completion", <<>>)
    /\ RanWith("focusOutEvent", reason)
    /\ UNCHANGED <<history, tmphist, barvars>>

\* _histbrowse_start filtering by the input text as typed, not stripped.
histbrowse_start_nostrip(txt) ==
    IF txt # <<>>
    THEN [alias |-> FALSE, own |-> comprehension(history, txt)]
    ELSE [alias |-> TRUE, own |-> <<>>]

\* _histbrowse_start keeping a non-empty list left by the session before.
histbrowse_start_reuse(txt) ==
    IF TmpList # <<>> THEN tmphist
    ELSE IF strip(txt) # <<>>
    THEN [alias |-> FALSE, own |-> comprehension(history, strip(txt))]
    ELSE [alias |-> TRUE, own |-> <<>>]

\* _histbrowse_start: the new self._tmphist for the input text txt.
histbrowse_start(txt) ==
    LET pre == strip(txt)
    IN  IF pre # <<>>
        THEN [alias |-> FALSE, own |-> comprehension(history, pre)]
        ELSE [alias |-> TRUE, own |-> <<>>]

\* _histbrowse_start: the new self._histpos for the new self._tmphist.
start_pos(tmp) == Len(deref(tmp, history)) - 1

\* lst[k] as Python reads it: a negative k counts from the end.
getitem(lst, k) ==
    IF k >= 0 /\ k < Len(lst) THEN [ok |-> TRUE, val |-> lst[k + 1]]
    ELSE IF k < 0 /\ -k <= Len(lst)
         THEN [ok |-> TRUE, val |-> lst[Len(lst) + k + 1]]
         ELSE [ok |-> FALSE, val |-> <<>>]

\* key_up_handler skipping an entry on its way back.
up_pos_skip(p) == p - 2

\* The position key_up_handler moves an active cursor to.
up_pos(p) == p - 1

\* key_up_handler returning early only below the oldest entry.
up_clamped_late(p) == p < 0

\* Whether key_up_handler returns early on an active cursor at p.
up_clamped(p) == p <= 0

key_up_handler ==
    LET inactive == histpos = None
        clamped == ~inactive /\ up_clamped(histpos[1])
        tmp == IF inactive THEN histbrowse_start(text) ELSE tmphist
        lst == deref(tmp, history)
        pos == IF inactive THEN start_pos(tmp) ELSE up_pos(histpos[1])
        item == getitem(lst, pos)
    IN  /\ Ran("key_up_handler")
        /\ UNCHANGED history
        /\ IF clamped
           THEN /\ UNCHANGED <<text, tmphist, histpos, barvars>>
                /\ emitted' = <<>>
           ELSE /\ tmphist' = tmp
                /\ histpos' = Some(pos)
                /\ IF lst = <<>>
                   THEN /\ UNCHANGED <<text, barvars>>
                        /\ emitted' = <<>>
                   ELSE IF item.ok
                   THEN /\ text' = item.val
                        /\ setFocus
                        /\ emitted' = <<>>
                   ELSE /\ UNCHANGED <<text, barvars>>
                        /\ emitted' = Signal("IndexError", <<>>)

\* The position key_down_handler moves the cursor to.
down_pos(p) == p + 1

\* The early return of key_down_handler with its bound off by one.
down_returns_late(pos, lst) ==
    \/ pos = None
    \/ pos[1] >= Len(lst)
    \/ lst = <<>>

\* Whether key_down_handler returns early.
down_returns(pos, lst) ==
    \/ pos = None
    \/ pos[1] >= Len(lst) - 1
    \/ lst = <<>>

key_down_handler ==
    LET lst == TmpList
        pos == down_pos(histpos[1])
        item == getitem(lst, pos)
    IN  /\ Ran("key_down_handler")
        /\ UNCHANGED <<history, tmphist>>
        /\ IF down_returns(histpos, lst)
           THEN /\ UNCHANGED <<text, histpos, barvars>>
                /\ emitted' = <<>>
           ELSE /\ histpos' = Some(pos)
                /\ IF item.ok
                   THEN /\ text' = item.val
                        /\ setFocus
                        /\ emitted' = <<>>
                   ELSE /\ UNCHANGED <<text, barvars>>
                        /\ emitted' = Signal("IndexError", <<>>)

----------------------------------------------------------------------------
(* Url                                                                     *)

\* The page URLs set_url is given, as QUrl values.
Urls == { [qurl |-> "http://a/"], [qurl |-> "http://b/"] }

\* The links set_hover_url is given; the empty string un-hovers.
Links == { "", "http://l1/", "http://l2/" }

\* qutebrowser.utils.url.urlstring: the string of a QUrl.
urlstring(u) == u.qurl

InitUrl ==
    /\ url = ""
    /\ old_url = ""
    /\ urllog = [op |-> "init", page |-> "", hovering |-> FALSE,
                 before |-> "", washovering |-> FALSE]

set_url(u) ==
    /\ UNCHANGED <<cmdvars, barvars, progvars, valvars>>
    /\ url' = urlstring(u)
    /\ urllog' = [urllog EXCEPT !.op = "set_url", !.page = urlstring(u)]
    /\ UNCHANGED old_url

set_hover_url(link) ==
    /\ UNCHANGED <<cmdvars, barvars, progvars, valvars>>
    /\ IF link # ""
       THEN /\ old_url' = url
            /\ url' = link
       ELSE /\ url' = old_url
            /\ UNCHANGED old_url
    /\ urllog' = IF link # ""
                  THEN [urllog EXCEPT !.op = "hover", !.hovering = TRUE,
                                      !.before = IF urllog.hovering
                                                 THEN @ ELSE url]
                  ELSE [urllog EXCEPT !.op = "unhover", !.hovering = FALSE,
                                      !.washovering = urllog.hovering]

----------------------------------------------------------------------------
(* Progress                                                                *)

\* The progress values set_progress is given.
Progresses == { 0, 50, 100 }

\* The values the configuration may hold under 'status.progress.bg': none,
\* or the colour it holds under 'statusbar.progress.bg'.
StatusProgressBgs == { NoColor, "statusbar.progress.bg" }

\* Progress.__setattr__: the stylesheet colour after color is set to c.
setattr_color(c) == IF c # NoColor THEN c ELSE chunk

\* Progress.__init__ under a configuration.
InitProgress(cfg) ==
    /\ status_progress_bg = cfg
    /\ value = 0
    /\ color = "statusbar.progress.bg"
    /\ chunk = "statusbar.progress.bg"
    /\ visible = FALSE
    /\ proglog = [op |-> "init", arg |-> 0, wasvisible |-> FALSE,
                  waschunk |-> "statusbar.progress.bg"]

ProgRan(op, arg) ==
    /\ proglog' = [op |-> op, arg |-> arg, wasvisible |-> visible,
                   waschunk |-> chunk]
    /\ UNCHANGED <<status_progress_bg, cmdvars, barvars, urlvars, valvars>>

set_progress(prog) ==
    /\ IF prog = 100
       THEN /\ value' = prog
            /\ UNCHANGED <<color, chunk, visible>>
       ELSE /\ IF color # getraw("status.progress.bg")
               THEN /\ color' = getraw("status.progress.bg")
                    /\ chunk' = setattr_color(getraw("status.progress.bg"))
               ELSE UNCHANGED <<color, chunk>>
            /\ value' = prog
            /\ visible' = TRUE
    /\ ProgRan("set_progress", prog)

load_finished(ok) ==
    /\ IF ok
       THEN /\ color' = getraw("status.progress.bg")
            /\ chunk' = setattr_color(getraw("status.progress.bg"))
            /\ visible' = FALSE
       ELSE /\ color' = getraw("statusbar.progress.bg.error")
            /\ chunk' = setattr_color(getraw("statusbar.progress.bg.error"))
            /\ UNCHANGED visible
    /\ UNCHANGED value
    /\ ProgRan("load_finished", IF ok THEN 1 ELSE 0)

----------------------------------------------------------------------------
(* CommandValidator                                                        *)

\* The values keys.startchars may hold.
StartChars == { <<":">>, <<":", "/", "?">> }

\* The strings and cursor positions validate is given.
ValidatedStrings ==
    { <<>>, <<":">>, <<"/">>, <<"a">>, <<" ">>, <<":", "a">>, <<"a", ":">>,
      <<"/", "b">>, <<"?", "b">>, <<" ", ":">>, <<":", ":">>,
      <<"a", "/", "?">> }

ValidatedPositions == 0..3

InitValidator(chars, string, pos) ==
    /\ startchars = chars
    /\ vstring = string
    /\ vpos = pos
    /\ vresult = <<>>

\* any(string.startswith(c) for c in chars)
RECURSIVE any_startswith(_, _)
any_startswith(string, chars) ==
    IF chars = <<>> THEN FALSE
    ELSE \/ startswith(string, <<Head(chars)>>)
         \/ any_startswith(string, Tail(chars))

\* validate finding a start character anywhere in the string.
validate_anywhere(string, pos) ==
    IF \E k \in 1..Len(string) : \E j \in 1..Len(startchars) :
            string[k] = startchars[j]
    THEN <<"Acceptable", string, pos>>
    ELSE <<"Invalid", string, pos>>

\* CommandValidator.validate
validate(string, pos) ==
    IF any_startswith(string, startchars)
    THEN <<"Acceptable", string, pos>>
    ELSE <<"Invalid", string, pos>>

\* QLineEdit asking its validator about the line.
validate_call ==
    /\ vresult = <<>>
    /\ vresult' = validate(vstring, vpos)
    /\ UNCHANGED <<startchars, vstring, vpos>>
    /\ UNCHANGED <<cmdvars, barvars, urlvars, progvars>>

----------------------------------------------------------------------------
(* Specifications                                                          *)

\* The status bar as StatusBar.__init__ leaves it.
Init ==
    /\ InitCommand
    /\ InitBar
    /\ InitUrl
    /\ InitProgress(NoColor)
    /\ InitValidator(<<":", "/", "?">>, <<>>, 0)

Next ==
    \/ process_cmdline
    \/ \E t \in TextPool : other_process_cmdline(t)
    \/ \E t \in TextPool : textEdited(t)
    \/ \E t \in TextPool : set_cmd(t)
    \/ \E t \in AppendPool : append_cmd(t)
    \/ \E r \in FocusReasons : focusOutEvent(r)
    \/ key_up_handler
    \/ key_down_handler

Spec == Init /\ [][Next]_vars

\* The texts of the submissions followed by SpecSubmit.
SubmitPool ==
    { <<":", "a">>, <<":", ":", "a">>, <<"/", "b">>, <<"/", "/", "b">>,
      <<"?", "b">>, <<"?", "?", "b">> }

NextSubmit ==
    \/ process_cmdline
    \/ \E t \in SubmitPool : textEdited(t)
    \/ \E r \in FocusReasons : focusOutEvent(r)
    \/ key_up_handler
    \/ key_down_handler

\* The command line alone, typing and submitting every kind of command.
SpecSubmit == Init /\ [][NextSubmit]_vars

\* StatusBar.clear_error called on the status bar itself.
StatusBar_clear_error ==
    /\ clear_error
    /\ UNCHANGED <<cmdvars, urlvars, progvars, valvars>>

\* Command.focusInEvent
focusInEvent ==
    /\ clear_error
    /\ UNCHANGED <<cmdvars, urlvars, progvars, valvars>>

InitBars ==
    /\ InitCommand
    /\ InitBar
    /\ InitUrl
    /\ \E cfg \in StatusProgressBgs : InitProgress(cfg)
    /\ InitValidator(<<":", "/", "?">>, <<>>, 0)

NextBars ==
    \/ \E t \in ErrorTexts : disp_error(t)
    \/ StatusBar_clear_error
    \/ focusInEvent
    \/ \E u \in Urls : set_url(u)
    \/ \E l \in Links : set_hover_url(l)
    \/ \E p \in Progresses : set_progress(p)
    \/ \E ok \in BOOLEAN : load_finished(ok)

\* The Text, Url and Progress widgets of the status bar under the slots the
\* main window connects to them.
SpecBar == InitBars /\ [][NextBars]_vars

InitValidate ==
    /\ InitCommand
    /\ InitBar
    /\ InitUrl
    /\ InitProgress(NoColor)
    /\ \E chars \in StartChars, string \in ValidatedStrings,
          pos \in ValidatedPositions :
            InitValidator(chars, string, pos)

\* CommandValidator.validate applied to every string and position.
SpecValidator == InitValidate /\ [][validate_call]_vars

----------------------------------------------------------------------------
(* The history browser's contract, stated apart from the code above.       *)

\* s without its leading and trailing whitespace.
Trimmed(s) ==
    LET keep == { k \in 1..Len(s) : s[k] \notin Whitespace }
        lo == CHOOSE k \in keep : \A j \in keep : k <= j
        hi == CHOOSE k \in keep : \A j \in keep : j <= k
    IN  IF keep = {} THEN <<>> ELSE SubSeq(s, lo, hi)

IsPrefixOf(p, s) ==
    /\ Len(p) <= Len(s)
    /\ \A k \in 1..Len(p) : p[k] = s[k]

\* The filtered view start_browsing is to build from log for the input txt.
Filtered(log, txt) ==
    LET pre == Trimmed(txt)
        Matches(e) == IsPrefixOf(pre, e)
    IN  IF pre = <<>> THEN log ELSE SelectSeq(log, Matches)

Active == histpos # None

\* A step of the widget's own process_cmdline, of key_up_handler, ...
Submits == last'.op = "process_cmdline"

StepsBack == last'.op = "key_up_handler"

StepsForward == last'.op = "key_down_handler"

NoAdjacentDuplicates ==
    \A k \in 1..(Len(history) - 1) : history[k] # history[k + 1]

\* C1: the history never holds two adjacent equal entries; a submitted text
\* is appended at the tail unless the history is non-empty and its last
\* entry equals that text, and then the history is left as it is.
C1_NoConsecutiveDuplicates ==
    /\ []NoAdjacentDuplicates
    /\ [][Submits =>
            history' = IF history # <<>> /\ history[Len(history)] = text
                       THEN history
                       ELSE history \o <<text>>]_vars

\* C1 witness: a non-empty command was submitted and dropped as a repeat of
\* the last entry of a history of two or more.
C1_Witness ==
    /\ last.op = "process_cmdline"
    /\ last.washlen = Len(history)
    /\ Len(history) >= 2
    /\ emitted # <<>>
    /\ emitted[1].sig = "got_cmd"

\* C2: the history is append-only: in every step the old history is a
\* prefix of the new one, it grows by at most one entry, and only a command
\* submission grows it; browsing, edits and focus loss leave it unchanged.
C2_AppendOnly ==
    [][/\ Len(history') <= Len(history) + 1
       /\ SubSeq(history', 1, Len(history)) = history
       /\ history' # history =>
            last'.op \in {"process_cmdline", "other_process_cmdline"}]_vars

\* C2 witness: a submission has just grown a history that already held two
\* entries.
C2_Witness ==
    /\ last.op = "process_cmdline"
    /\ last.washlen = 2
    /\ Len(history) = 3

\* C3: start_browsing builds filtered from the current history and input:
\* the entries starting with the trimmed input, in the history's order, or
\* the whole history when the trimmed input is empty; when filtered is not
\* empty, position is its last index.
C3_StartBrowsingFilter ==
    [][(StepsBack /\ ~Active) =>
          LET f == Filtered(history, text)
          IN  /\ deref(tmphist', history') = f
              /\ f # <<>> => histpos' = Some(Len(f) - 1)]_vars

\* C3 witness: browsing was started with a prefix that two entries of the
\* history match and another does not; the cursor is on the last of the two.
C3_Witness ==
    /\ last.op = "key_up_handler"
    /\ last.waspos = None
    /\ ~tmphist.alias
    /\ Len(tmphist.own) = 2
    /\ Len(history) = 3
    /\ histpos = Some(1)

\* C4: when start_browsing finds nothing (empty history, or no entry with
\* the typed prefix) it is a no-op: the cursor stays inactive and the input
\* text is unchanged.
C4_EmptyStartIsNoOp ==
    [][(StepsBack /\ ~Active /\ Filtered(history, text) = <<>>) =>
          (histpos' = None /\ text' = text)]_vars

\* C5: whenever the cursor is active, position is a valid index of filtered,
\* 0 <= position <= len(filtered) - 1.
C5_PositionInRange ==
    Active => (0 <= histpos[1] /\ histpos[1] <= Len(TmpList) - 1)

\* C6: step_back on an active cursor is a complete no-op at position 0 and
\* otherwise moves position down by exactly one and shows the entry there.
C6_StepBack ==
    [][(StepsBack /\ Active) =>
          IF histpos[1] = 0
          THEN UNCHANGED <<histpos, tmphist, text, history>>
          ELSE /\ histpos' = Some(histpos[1] - 1)
               /\ text' = deref(tmphist', history')[histpos[1]]]_vars

\* C7: step_forward on an active cursor is a complete no-op at the last
\* index of filtered (no wrap to 0, the cursor stays active) and otherwise
\* moves position up by exactly one and shows the entry there.
C7_StepForward ==
    [][(StepsForward /\ Active) =>
          IF histpos[1] = Len(TmpList) - 1
          THEN UNCHANGED <<histpos, tmphist, text, history>>
          ELSE /\ histpos' = Some(histpos[1] + 1)
               /\ UNCHANGED <<tmphist, history>>
               /\ text' = TmpList[histpos[1] + 2]]_vars

\* C7 witness: step_forward has moved the cursor from 0 to 1 and shows the
\* second entry of filtered.
C7_Witness ==
    /\ last.op = "key_down_handler"
    /\ last.waspos = Some(0)
    /\ histpos = Some(1)
    /\ Len(TmpList) >= 2
    /\ text = TmpList[2]

\* C8: step_back on an inactive cursor starts browsing from the current
\* input: filtered is built anew from the current history and input, never
\* kept from the session before, and when it is not empty the cursor is
\* active on its last index and that newest match is shown.
C8_StepBackReseeds ==
    [][(StepsBack /\ ~Active) =>
          LET f == Filtered(history, text)
          IN  /\ deref(tmphist', history') = f
              /\ f # <<>> =>
                    /\ Active'
                    /\ histpos'[1] = Len(f) - 1
                    /\ text' = f[Len(f)]]_vars

\* C8 witness: an inactive cursor that still held the filtered list of an
\* earlier session was stepped back, and now holds another, non-empty list
\* and shows its last entry.
C8_Witness ==
    /\ last.op = "key_up_handler"
    /\ last.waspos = None
    /\ last.wastmp # <<>>
    /\ TmpList # <<>>
    /\ TmpList # last.wastmp
    /\ histpos = Some(Len(TmpList) - 1)
    /\ text = TmpList[Len(TmpList)]

\* C9: step_forward on an inactive cursor starts browsing from the current
\* input: with a matching history the cursor is active afterwards and
\* filtered is built from the current input.
C9_StepForwardStarts ==
    [][(StepsForward /\ ~Active /\ Filtered(history, text) # <<>>) =>
          /\ Active'
          /\ deref(tmphist', history') = Filtered(history, text)]_vars

\* C10 as stated: the cursor is deactivated by every direct edit of the
\* input, every loss of focus whatever its reason, and every submission.
C10_AnyFocusLossDeactivates ==
    [][last'.op \in {"textEdited", "focusOutEvent", "process_cmdline"} =>
          ~Active']_vars

Deactivating(l) ==
    \/ l.op \in {"textEdited", "process_cmdline"}
    \/ /\ l.op = "focusOutEvent"
       /\ l.arg \in {"MouseFocusReason", "TabFocusReason",
                     "BacktabFocusReason", "OtherFocusReason"}

\* C10 amended: the cursor is deactivated by every direct edit of the input,
\* every loss of focus for the reason Mouse, Tab, Backtab or Other, and
\* every submission; the next step_back then starts a fresh session.
C10_Deactivation ==
    /\ [][Deactivating(last') => ~Active']_vars
    /\ [][(Deactivating(last) /\ StepsBack) =>
             deref(tmphist', history') = Filtered(history, text)]_vars

\* C10 witness: an active cursor has just been deactivated by a loss of
\* focus for the reason Other.
C10_Witness ==
    /\ last.op = "focusOutEvent"
    /\ last.arg = "OtherFocusReason"
    /\ last.waspos # None
    /\ ~Active

\* ---------------------------------------------------------------------
\* C11: no browsing operation fails: stepping back or forward never raises,
\* and whenever it reads the filtered list it reads at an index i with
\* 0 <= i < len(list) and displays the entry there.
NoRaise == emitted = <<>> \/ emitted[1].sig # "IndexError"

ReadsInRange ==
    ((StepsBack \/ StepsForward) /\ histpos' # histpos /\ TmpList' # <<>>)
        => /\ histpos' # None
           /\ 0 <= histpos'[1]
           /\ histpos'[1] < Len(TmpList')
           /\ text' = TmpList'[histpos'[1] + 1]

C11_BrowsingNeverFails == []NoRaise /\ [][ReadsInRange]_vars

\* A step back requested on the oldest entry of a list of several.
C11_Witness ==
    /\ last.op = "key_up_handler"
    /\ last.waspos = Some(0)
    /\ histpos = Some(0)
    /\ Len(TmpList) >= 2
    /\ NoRaise

\* ---------------------------------------------------------------------
\* C12: un-hovering (set_hover_url with an empty link) puts back the URL of
\* the page: the one displayed when hovering began or the one set_url gave
\* since then, and the one set_url gave last when no hover preceded.
C12_UnhoverRestoresPage ==
    urllog.op = "unhover" =>
        \/ url = urllog.page
        \/ urllog.washovering /\ url = urllog.before

\* ---------------------------------------------------------------------
\* C13: clearing after one or more disp_error calls displays the text shown
\* before the first of them in the normal colours; clearing with no error
\* displayed leaves the text alone.
ErrorCleared == errlog.inerr /\ ~errlog'.inerr

C13_ErrorRoundTrip ==
    [][/\ ErrorCleared => /\ txt_text' = errlog.before
                          /\ fgcolor' = "statusbar.fg"
                          /\ bgcolor' = "statusbar.bg"
       /\ (~errlog.inerr /\ ~errlog'.inerr) => txt_text' = txt_text]_vars

\* ---------------------------------------------------------------------
\* C14: validate answers Acceptable exactly when the string begins with one
\* of the configured start characters and Invalid otherwise, and hands the
\* string and the position back as they were given.
BeginsWithStartChar ==
    /\ vstring # <<>>
    /\ \E j \in 1..Len(startchars) : vstring[1] = startchars[j]

C14_ValidateClassifies ==
    vresult # <<>> =>
        /\ vresult[1] \in { "Acceptable", "Invalid" }
        /\ vresult[1] = "Acceptable" <=> BeginsWithStartChar
        /\ vresult[2] = vstring
        /\ vresult[3] = vpos

\* A string holding a start character that it does not begin with.
C14_Witness ==
    /\ vresult # <<>>
    /\ vresult[1] = "Invalid"
    /\ vstring = <<"a", ":">>
    /\ vpos = 1

\* ---------------------------------------------------------------------
\* C15: submitting the text t ends browsing, records t under the duplicate
\* rule, clears the line, and emits the signal of t's first character with
\* t less that single leading character as its payload.
SignalOf(c) ==
    IF c = ":" THEN "got_cmd"
    ELSE IF c = "/" THEN "got_search"
    ELSE "got_search_rev"

C15_SubmitSignals ==
    [][Submits =>
        /\ histpos' = None
        /\ history' = IF history # <<>> /\ history[Len(history)] = text
                      THEN history ELSE Append(history, text)
        /\ text' = <<>>
        /\ emitted' = IF text[1] \in { ":", "/", "?" }
                      THEN Signal(SignalOf(text[1]), Tail(text))
                      ELSE <<>>]_vars

\* ---------------------------------------------------------------------
\* C16: while a session is active, stepping keeps it active over the same
\* filtered list of n entries; k steps back in a row from a fresh start
\* display filtered[n-1] .. filtered[n-k], and a step forward right after
\* them displays filtered[n-k+1].
Entries == Len(TmpList)

SessionStable ==
    (last.op \in { "key_up_handler", "key_down_handler" }
        /\ last.waspos # None)
        => Active /\ TmpList = last.wastmp

RecallsBack ==
    (last.ups >= 1 /\ TmpList # <<>>)
        => /\ last.ups <= Entries
           /\ histpos = Some(Entries - last.ups)
           /\ text = TmpList[Entries - last.ups + 1]

RecallsForward(from) ==
    (last.fwd >= from /\ TmpList # <<>>)
        => /\ histpos = Some(Entries - last.fwd + 1)
           /\ Entries - last.fwd + 2 \in 1..Entries
           /\ text = TmpList[Entries - last.fwd + 2]

C16_RecallSequence == SessionStable /\ RecallsBack /\ RecallsForward(1)

\* C16 as the code has it: as above for 2 <= k <= n; after a single step
\* back the step forward is a no-op and filtered[n-1] stays displayed.
ForwardAtNewest ==
    (last.fwd = 1 /\ TmpList # <<>>)
        => histpos = Some(Entries - 1) /\ text = TmpList[Entries]

C16_RecallSequenceFromTwo ==
    SessionStable /\ RecallsBack /\ RecallsForward(2) /\ ForwardAtNewest

\* Two steps back over three entries, then a step forward.
C16_Witness ==
    /\ last.op = "key_down_handler"
    /\ last.fwd = 2
    /\ Entries = 3
    /\ histpos = Some(2)
    /\ text = TmpList[3]

\* ---------------------------------------------------------------------
\* C17: the filtered list of an active session is a snapshot: when another
\* instance records a submission, the list is the same afterwards and a
\* cursor on its newest entry is still on its newest entry.
C17_FilteredIsSnapshot ==
    [][(last'.op = "other_process_cmdline" /\ Active /\ TmpList # <<>>)
        => /\ TmpList' = TmpList
           /\ histpos = Some(Entries - 1)
                => histpos' = Some(Len(TmpList') - 1)]_vars

\* ---------------------------------------------------------------------
\* C18: the progress bar starts hidden; set_progress(p) with p # 100 shows
\* it in the normal progress colour; set_progress(100) only stores the
\* value; load_finished(true) hides it in the normal colour;
\* load_finished(false) leaves its visibility and puts it in the error
\* colour, which stays until one of the resetting calls.
ProgressColour == "statusbar.progress.bg"

ProgressErrorColour == "statusbar.progress.bg.error"

C18_ProgressDisplay ==
    [][/\ proglog.op = "init" => ~visible
       /\ (proglog'.op = "set_progress" /\ proglog'.arg # 100)
            => visible' /\ chunk' = ProgressColour
       /\ (proglog'.op = "set_progress" /\ proglog'.arg = 100)
            => value' = 100 /\ visible' = visible /\ chunk' = chunk
       /\ (proglog'.op = "load_finished" /\ proglog'.arg = 1)
            => ~visible' /\ chunk' = ProgressColour
       /\ (proglog'.op = "load_finished" /\ proglog'.arg = 0)
            => visible' = visible /\ chunk' = ProgressErrorColour]_vars

====
